---------------------------- MODULE Spec2Model ----------------------------
(***************************************************************************)
(* Model of the useLiveRoxy hook (src/vite.config.ts, lines 89-619): the   *)
(* duplex voice session engine.  React state and refs are the variables of *)
(* the same name.  Every object the hook creates during the k-th call of   *)
(* connect (the two audio contexts, the microphone stream, the live        *)
(* session, the script processor created by that session's onopen) is      *)
(* designated by the number k; 0 stands for null.  An async function is    *)
(* one action per segment between two awaits.                              *)
(*                                                                         *)
(* Closures: connect is memoised on [apiKey], disconnect on [], so the     *)
(* functions they reach (startAudioInput, stopVideoInput) read the         *)
(* isMicMuted / videoStream of the render in which they were memoised.     *)
(* State updates of one handler are applied together (one render).         *)
(***************************************************************************)
EXTENDS Integers, Sequences, FiniteSets, TLC

\* ------------------------------------------------------------- bounds
MaxConnects == 2      \* calls of connect that get past the credential check
MaxCams     == 2      \* calls of startVideoInput
MaxClock    == 3      \* wall clock ticks
MaxDur      == 2      \* longest audio chunk, in clock ticks
MaxBatch    == 2      \* tool calls in one inbound message
MaxLog      == 2      \* Memory Log entries
MaxAcc      == 2      \* characters in a transcription accumulator
MaxSched    == 3      \* audio chunks scheduled between two interruptions

\* ------------------------------------------------------------- constants
Threshold == 1        \* 0.01, the level threshold, in hundredths
ActionTTL == 3        \* 3000 ms, in clock ticks of one second

Conn   == 1..MaxConnects
Cams   == 1..MaxCams
Levels == 0..2        \* below, at and above the threshold
NoError == "null"

VARIABLES
  \* React state (lines 91-110)
  apiKey, state, memory, inputVolume, isMicMuted, error, permissionRequest,
  isCameraActive, videoStream, videoResolution, activeSystemAction,
  \* refs (lines 112-130)
  videoIntervalRef, videoSrcObject,
  inputContextRef, outputContextRef, inputSourceRef, processorRef,
  outputGainRef, streamRef, sessionPromiseRef, nextStartTimeRef,
  currentInputTranscription, currentOutputTranscription,
  \* localStorage flags
  camGranted, overlayGranted,
  \* memoised closures: the state their render saw
  connectClosure, toggleCameraClosure,
  \* the objects of the platform and of the remote service
  cpc, ccl, cwait, inCtx, outCtx, ctxStart, mic, session, proc,
  vpc, camTrack,
  clock, timers, mounted,
  \* what the last step did (history, read by the properties only)
  hist

reactVars == <<apiKey, state, memory, inputVolume, isMicMuted, error,
               permissionRequest, isCameraActive, videoStream,
               videoResolution, activeSystemAction>>
refVars   == <<videoIntervalRef, videoSrcObject, inputContextRef,
               outputContextRef, inputSourceRef, processorRef, outputGainRef,
               streamRef, sessionPromiseRef, nextStartTimeRef,
               currentInputTranscription, currentOutputTranscription>>
envVars   == <<camGranted, overlayGranted, connectClosure, toggleCameraClosure,
               cpc, ccl, cwait, inCtx, outCtx, ctxStart, mic, session, proc,
               vpc, camTrack, clock, timers, mounted>>
vars      == <<reactVars, refVars, envVars, hist>>

\* ------------------------------------------------------------- history
NoOut == <<>>
\* hist records the last step when it was a release of resources, a tick or an
\* inbound message, the chunks scheduled since the last interruption (start,
\* duration, the output clock at arrival and the output context), the chunks
\* an interruption has just discarded, the calls of connect that a user's
\* disconnect found under way (with the await they were suspended at), the
\* camera restarts that a disconnect or a camera-off toggle found within
\* their settle delay, the order in which a disconnect released, Mode as a
\* capture tick found it, and the transcription fragments received in each
\* direction during the current turn (done: the turn was completed by the
\* last message).
NoneHeard == [in |-> <<>>, out |-> <<>>, done |-> FALSE]
Hist(op, who, released, again, out) ==
  [op |-> op, who |-> who, released |-> released, again |-> again, out |-> out,
   msg |-> <<>>, before |-> 0, mode |-> "", order |-> <<>>,
   aborted |-> hist.aborted, stale |-> hist.stale, render |-> "sync",
   dropped |-> <<>>, heard |-> hist.heard,
   twice |-> (op \in {"disconnect", "onerror"}
              /\ hist.op \in {"disconnect", "onerror"}),
   sched |-> hist.sched]
Other == Hist("other", 0, {}, {}, NoOut)

\* ------------------------------------------------------------- Init
Init ==
  /\ apiKey \in {"", "key"}
  /\ state = "DISCONNECTED"
  /\ memory = <<>>
  /\ inputVolume = 0
  /\ isMicMuted = FALSE
  /\ error = NoError
  /\ permissionRequest = 0
  /\ isCameraActive = FALSE
  /\ videoStream = 0
  /\ videoResolution = "SD"
  /\ activeSystemAction = <<>>
  /\ videoIntervalRef = 0
  /\ videoSrcObject = 0
  /\ inputContextRef = 0
  /\ outputContextRef = 0
  /\ inputSourceRef = 0
  /\ processorRef = 0
  /\ outputGainRef = 0
  /\ streamRef = 0
  /\ sessionPromiseRef = 0
  /\ nextStartTimeRef = 0
  /\ currentInputTranscription = <<>>
  /\ currentOutputTranscription = <<>>
  /\ camGranted = FALSE
  /\ overlayGranted = FALSE
  /\ connectClosure = [muted |-> FALSE, video |-> 0]
  /\ toggleCameraClosure = [video |-> 0]
  /\ cpc = [k \in Conn |-> "none"]
  /\ ccl = [k \in Conn |-> [muted |-> FALSE, video |-> 0]]
  /\ cwait = [k \in Conn |-> 0]
  /\ inCtx = [k \in Conn |-> "none"]
  /\ outCtx = [k \in Conn |-> "none"]
  /\ ctxStart = [k \in Conn |-> 0]
  /\ mic = [k \in Conn |-> "none"]
  /\ session = [k \in Conn |-> "none"]
  /\ proc = [k \in Conn |-> [st |-> "none", ctx |-> 0, stream |-> 0, muted |-> FALSE]]
  /\ vpc = [j \in Cams |-> "none"]
  /\ camTrack = [j \in Cams |-> "none"]
  /\ clock = 0
  /\ timers = {}
  /\ mounted = TRUE
  /\ hist = [op |-> "init", who |-> 0, released |-> {}, again |-> {},
             out |-> NoOut, msg |-> <<>>, before |-> 0, mode |-> "",
             order |-> <<>>, aborted |-> {}, stale |-> {},
             render |-> "sync",
             dropped |-> <<>>,
             heard |-> NoneHeard, twice |-> FALSE,
             sched |-> <<>>]

\* ------------------------------------------------------------- helpers
Max(a, b) == IF a > b THEN a ELSE b

\* stopVideoInput as seen from a closure whose render held the camera stream
\* `captured` (0: that render's videoStream was null).
StopVideoInput(captured) ==
  /\ videoIntervalRef' = 0
  /\ videoSrcObject' = 0
  /\ camTrack' = IF captured # 0
                   THEN [camTrack EXCEPT ![captured] = "stopped"]
                   ELSE camTrack
  /\ videoStream' = IF captured # 0 THEN 0 ELSE videoStream
  /\ isCameraActive' = FALSE
  /\ toggleCameraClosure' = IF isCameraActive
                              THEN [video |-> videoStream']
                              ELSE toggleCameraClosure

StopVideoReleased(captured) ==
  (IF videoIntervalRef # 0 THEN {<<"interval", videoIntervalRef>>} ELSE {})
  \cup (IF captured # 0 THEN {<<"cam", captured>>} ELSE {})

StopVideoAgain(captured) ==
  IF captured # 0 /\ camTrack[captured] = "stopped"
    THEN {<<"cam", captured>>} ELSE {}

\* The stream that the stopVideoInput reached from disconnect sees: disconnect
\* is memoised with no dependencies, so it is the first render's, whose
\* videoStream is the initial null.
DisconnectVideoStream == 0

\* disconnect without the reset of streamRef (a faulty variant, against which C4 is tested)
DisconnectBodyKeepsStream ==
  /\ proc' = IF processorRef # 0
               THEN [proc EXCEPT ![processorRef].st = "detached"]
               ELSE proc
  /\ processorRef' = 0
  /\ inputSourceRef' = 0
  /\ mic' = IF streamRef # 0 THEN [mic EXCEPT ![streamRef] = "stopped"] ELSE mic
  /\ streamRef' = streamRef
  /\ inCtx' = IF inputContextRef # 0
                THEN [inCtx EXCEPT ![inputContextRef] = "closed"]
                ELSE inCtx
  /\ inputContextRef' = 0
  /\ outCtx' = IF outputContextRef # 0
                 THEN [outCtx EXCEPT ![outputContextRef] = "closed"]
                 ELSE outCtx
  /\ outputContextRef' = 0
  /\ StopVideoInput(DisconnectVideoStream)
  /\ state' = "DISCONNECTED"

\* The body of disconnect (lines 581-589).
DisconnectBody ==
  /\ proc' = IF processorRef # 0
               THEN [proc EXCEPT ![processorRef].st = "detached"]
               ELSE proc
  /\ processorRef' = 0
  /\ inputSourceRef' = 0
  /\ mic' = IF streamRef # 0 THEN [mic EXCEPT ![streamRef] = "stopped"] ELSE mic
  /\ streamRef' = 0
  /\ inCtx' = IF inputContextRef # 0
                THEN [inCtx EXCEPT ![inputContextRef] = "closed"]
                ELSE inCtx
  /\ inputContextRef' = 0
  /\ outCtx' = IF outputContextRef # 0
                 THEN [outCtx EXCEPT ![outputContextRef] = "closed"]
                 ELSE outCtx
  /\ outputContextRef' = 0
  /\ StopVideoInput(DisconnectVideoStream)
  /\ state' = "DISCONNECTED"

DisconnectReleased ==
  (IF processorRef # 0 THEN {<<"processor", processorRef>>} ELSE {})
  \cup (IF inputSourceRef # 0 THEN {<<"source", inputSourceRef>>} ELSE {})
  \cup (IF streamRef # 0 THEN {<<"mic", streamRef>>} ELSE {})
  \cup (IF inputContextRef # 0 THEN {<<"inCtx", inputContextRef>>} ELSE {})
  \cup (IF outputContextRef # 0 THEN {<<"outCtx", outputContextRef>>} ELSE {})
  \cup StopVideoReleased(DisconnectVideoStream)

DisconnectAgain ==
  (IF processorRef # 0 /\ proc[processorRef].st = "detached"
     THEN {<<"processor", processorRef>>} ELSE {})
  \cup (IF streamRef # 0 /\ mic[streamRef] = "stopped"
          THEN {<<"mic", streamRef>>} ELSE {})
  \cup (IF inputContextRef # 0 /\ inCtx[inputContextRef] = "closed"
          THEN {<<"inCtx", inputContextRef>>} ELSE {})
  \cup (IF outputContextRef # 0 /\ outCtx[outputContextRef] = "closed"
          THEN {<<"outCtx", outputContextRef>>} ELSE {})
  \cup StopVideoAgain(DisconnectVideoStream)

\* the releases of stopVideoInput, in the order of its statements (lines
\* 399-410)
StopVideoOrder(captured) ==
  (IF videoIntervalRef # 0 THEN <<"interval">> ELSE <<>>)
  \o (IF captured # 0 THEN <<"camera">> ELSE <<>>)

\* the releases of disconnect, in the order of its statements (lines 582-587)
DisconnectOrder ==
  (IF processorRef # 0 THEN <<"processor">> ELSE <<>>)
  \o (IF inputSourceRef # 0 THEN <<"source">> ELSE <<>>)
  \o (IF streamRef # 0 THEN <<"mic">> ELSE <<>>)
  \o (IF inputContextRef # 0 THEN <<"inCtx">> ELSE <<>>)
  \o (IF outputContextRef # 0 THEN <<"outCtx">> ELSE <<>>)
  \o StopVideoOrder(DisconnectVideoStream)

\* what disconnect leaves alone
DisconnectFrameButSession ==
  UNCHANGED <<apiKey, memory, inputVolume, isMicMuted, videoResolution, permissionRequest,
              activeSystemAction, outputGainRef, sessionPromiseRef,
              nextStartTimeRef, currentInputTranscription,
              currentOutputTranscription, camGranted, overlayGranted,
              connectClosure, cpc, ccl, cwait, ctxStart, vpc, clock, timers>>
DisconnectFrame == DisconnectFrameButSession /\ UNCHANGED session

\* The presentation layer shows its controls only while no permission prompt
\* covers them (src/unnamed/part_001, lines 335-351).
UserCanAct == mounted /\ permissionRequest = 0

\* the calls of connect that are suspended at an await, or whose session is
\* not acknowledged yet, with the place they are at
UnderWay ==
  {<<k, cpc[k]>> : k \in {i \in Conn : cpc[i] \notin {"none", "returned"}}}
  \cup {<<k, "opening">> : k \in {i \in Conn : session[i] = "opening"}}

\* the restarts of the camera that a resolution switch has scheduled and
\* whose settle delay (line 419) has not elapsed yet
Settling == {j \in Cams : vpc[j] = "delay"}

\* disconnect called by the user (part_001 lines 251-284: the button is shown
\* while Mode is not disconnected)
Disconnect ==
  /\ UserCanAct
  /\ state # "DISCONNECTED"
  /\ DisconnectBody
  /\ DisconnectFrame
  /\ UNCHANGED <<error, mounted>>
  /\ hist' = [Hist("disconnect", 0, DisconnectReleased, DisconnectAgain, NoOut)
                EXCEPT !.order = DisconnectOrder,
                       !.aborted = hist.aborted \cup UnderWay,
                       !.stale = hist.stale \cup Settling]

\* the unmount cleanup (lines 595-597)
Unmount ==
  /\ mounted
  /\ mounted' = FALSE
  /\ DisconnectBody
  /\ DisconnectFrame
  /\ UNCHANGED error
  /\ hist' = [Hist("disconnect", 0, DisconnectReleased, DisconnectAgain, NoOut)
                EXCEPT !.order = DisconnectOrder]

\* ------------------------------------------------------------- connect
\* The part of the engine that connect's continuations never touch.
ConnectFrame ==
  UNCHANGED <<apiKey, memory, inputVolume, isMicMuted, videoResolution, isCameraActive,
              videoStream, activeSystemAction, videoIntervalRef,
              videoSrcObject, inputSourceRef, processorRef, nextStartTimeRef,
              currentInputTranscription, currentOutputTranscription,
              connectClosure, toggleCameraClosure, proc, vpc, camTrack,
              clock, timers, mounted>>

\* Where checkAndRequestPermissions goes after the microphone step succeeded
\* (lines 176-209), given the localStorage flags.
AfterCamera(og) == IF ~og THEN "ui_overlay" ELSE "granted"
AfterMicrophone(cg, og) == IF ~cg THEN "ui_video" ELSE AfterCamera(og)

\* connect's continuation moves call k to `target`.  pr is the prompt slot as
\* the caller left it.  "granted": checkAndRequestPermissions returned true
\* and connect runs on to its first await (lines 247-253).
ConnectGoto(k, target, pr) ==
  /\ permissionRequest' = IF target \in {"ui_audio", "ui_video", "ui_overlay"}
                            THEN k ELSE pr
  /\ IF target = "granted"
       THEN /\ error' = NoError
            /\ state' = "IDLE"
            /\ inCtx' = [inCtx EXCEPT ![k] = "open"]
            /\ outCtx' = [outCtx EXCEPT ![k] = "open"]
            /\ ctxStart' = [ctxStart EXCEPT ![k] = clock]
            /\ inputContextRef' = k
            /\ outputContextRef' = k
            /\ cpc' = [cpc EXCEPT ![k] = "resume_in"]
       ELSE /\ cpc' = [cpc EXCEPT ![k] = IF target = "denied" THEN "returned"
                                                                 ELSE target]
            /\ UNCHANGED <<state, inCtx, outCtx, ctxStart, inputContextRef,
                           outputContextRef>>
            /\ error' = IF target = "denied"
                          THEN "Microphone permission denied." ELSE error
  /\ UNCHANGED <<cwait, outputGainRef, streamRef, sessionPromiseRef, mic,
                 session>>
  /\ ConnectFrame

\* connect's catch block (lines 309-317)
ConnectCatch(k, notAllowed) ==
  /\ error' = IF notAllowed THEN "Microphone access needed for voice commands."
                            ELSE "err.message"
  /\ state' = "DISCONNECTED"
  /\ cpc' = [cpc EXCEPT ![k] = "returned"]

\* a connect that reports the missing credential and goes on to the
\* permission check all the same (a faulty variant, against which C14 is
\* tested)
ConnectNoKeyProceeds ==
  /\ UserCanAct
  /\ state = "DISCONNECTED"
  /\ apiKey = ""
  /\ cpc[1] = "none"
  /\ error' = "API Key missing. Please configure it in settings."
  /\ cpc' = [cpc EXCEPT ![1] = "perm_mic"]
  /\ UNCHANGED <<apiKey, state, memory, inputVolume, isMicMuted, videoResolution,
                 permissionRequest, isCameraActive, videoStream,
                 activeSystemAction, refVars, camGranted, overlayGranted,
                 connectClosure, toggleCameraClosure, ccl, cwait, inCtx,
                 outCtx, ctxStart, mic, session, proc, vpc, camTrack, clock,
                 timers, mounted>>
  /\ hist' = Hist("connect.nokey", 0, {}, {}, NoOut)

\* connect with no credential (lines 238-241)
ConnectNoKey ==
  /\ UserCanAct
  /\ state = "DISCONNECTED"
  /\ apiKey = ""
  /\ error' = "API Key missing. Please configure it in settings."
  /\ UNCHANGED <<apiKey, state, memory, inputVolume, isMicMuted, videoResolution,
                 permissionRequest, isCameraActive, videoStream,
                 activeSystemAction, refVars, envVars>>
  /\ hist' = Hist("connect.nokey", 0, {}, {}, NoOut)

\* connect up to its first await: the getUserMedia of the permission check
\* (lines 236-244, 157-161).  The presentation layer offers connect while
\* Mode is disconnected (part_001 lines 206, 251-253).
Connect(k) ==
  /\ UserCanAct
  /\ state = "DISCONNECTED"
  /\ apiKey # ""
  /\ cpc[k] = "none"
  /\ \A i \in Conn : i < k => cpc[i] # "none"
  /\ cpc' = [cpc EXCEPT ![k] = "perm_mic"]
  /\ ccl' = [ccl EXCEPT ![k] = connectClosure]
  /\ UNCHANGED <<reactVars, refVars, camGranted, overlayGranted,
                 connectClosure, toggleCameraClosure, cwait, inCtx, outCtx,
                 ctxStart, mic, session, proc, vpc, camTrack, clock, timers,
                 mounted>>
  /\ hist' = Other

\* the first getUserMedia({audio}) settles (lines 159-166)
PermMic(k, ok) ==
  /\ mounted
  /\ cpc[k] = "perm_mic"
  /\ ConnectGoto(k, IF ok THEN AfterMicrophone(camGranted, overlayGranted)
                          ELSE "ui_audio", permissionRequest)
  /\ UNCHANGED <<ccl, camGranted, overlayGranted>>
  /\ hist' = Other

\* the user answers the permission prompt (lines 141-155)
PermissionAnswer(k, confirmed) ==
  /\ mounted
  /\ permissionRequest = k
  /\ cpc[k] \in {"ui_audio", "ui_video", "ui_overlay"}
  /\ LET at == cpc[k]
         og == overlayGranted \/ (at = "ui_overlay" /\ confirmed)
         target ==
           CASE at = "ui_audio" -> IF confirmed THEN "perm_mic2" ELSE "returned"
             [] at = "ui_video" -> IF confirmed THEN "perm_cam"
                                                ELSE AfterCamera(overlayGranted)
             [] at = "ui_overlay" -> "granted"
     IN /\ overlayGranted' = og
        /\ ConnectGoto(k, target, 0)
        /\ hist' = IF target = "returned"
                     THEN Hist("connect.declined", k, {}, {}, NoOut)
                     ELSE Other
  /\ UNCHANGED <<ccl, camGranted>>

\* the second getUserMedia({audio}) settles (lines 167-173)
PermMic2(k, ok) ==
  /\ mounted
  /\ cpc[k] = "perm_mic2"
  /\ ConnectGoto(k, IF ok THEN AfterMicrophone(camGranted, overlayGranted)
                          ELSE "denied", permissionRequest)
  /\ UNCHANGED <<ccl, camGranted, overlayGranted>>
  /\ hist' = IF ok THEN Other ELSE Hist("connect.refused", k, {}, {}, NoOut)

\* getUserMedia({video}) settles (lines 188-195)
PermCam(k, ok) ==
  /\ mounted
  /\ cpc[k] = "perm_cam"
  /\ camGranted' = (camGranted \/ ok)
  /\ ConnectGoto(k, AfterCamera(overlayGranted), permissionRequest)
  /\ UNCHANGED <<ccl, overlayGranted>>
  /\ hist' = Other

ResumeFrame ==
  /\ UNCHANGED <<permissionRequest, inCtx, outCtx, ctxStart, inputContextRef,
                 outputContextRef, streamRef, sessionPromiseRef, mic, session,
                 ccl, camGranted, overlayGranted>>
  /\ ConnectFrame

\* inputContextRef.current.resume() settles (line 253); it may reject when
\* the context was closed meanwhile.  Line 254 then dereferences
\* outputContextRef.current.
ResumeIn(k, ok) ==
  /\ mounted
  /\ cpc[k] = "resume_in"
  /\ ok \/ inCtx[k] = "closed"
  /\ IF ok /\ outputContextRef # 0
       THEN /\ cpc' = [cpc EXCEPT ![k] = "resume_out"]
            /\ cwait' = [cwait EXCEPT ![k] = outputContextRef]
            /\ UNCHANGED <<error, state>>
       ELSE /\ ConnectCatch(k, FALSE)
            /\ UNCHANGED cwait
  /\ UNCHANGED outputGainRef
  /\ ResumeFrame
  /\ hist' = Other

\* outputContextRef.current.resume() settles (line 254); lines 256-259 follow.
ResumeOut(k, ok) ==
  /\ mounted
  /\ cpc[k] = "resume_out"
  /\ ok \/ outCtx[cwait[k]] = "closed"
  /\ IF ok /\ outputContextRef # 0
       THEN /\ outputGainRef' = outputContextRef
            /\ cpc' = [cpc EXCEPT ![k] = "get_mic"]
            /\ UNCHANGED <<error, state>>
       ELSE /\ ConnectCatch(k, FALSE)
            /\ UNCHANGED outputGainRef
  /\ UNCHANGED cwait
  /\ ResumeFrame
  /\ hist' = Other

\* getUserMedia({audio}) of line 259 settles; lines 261-307 follow.
GetMic(k, res) ==
  /\ mounted
  /\ cpc[k] = "get_mic"
  /\ IF res = "ok"
       THEN /\ mic' = [mic EXCEPT ![k] = "live"]
            /\ streamRef' = k
            /\ session' = [session EXCEPT ![k] = "opening"]
            /\ sessionPromiseRef' = k
            /\ cpc' = [cpc EXCEPT ![k] = "returned"]
            /\ UNCHANGED <<error, state>>
            /\ hist' = Hist("connect.done", k, {}, {}, NoOut)
       ELSE /\ ConnectCatch(k, res = "NotAllowedError")
            /\ UNCHANGED <<mic, streamRef, session, sessionPromiseRef>>
            /\ hist' = Other
  /\ UNCHANGED <<permissionRequest, inCtx, outCtx, ctxStart, inputContextRef,
                 outputContextRef, outputGainRef, cwait, ccl, camGranted,
                 overlayGranted>>
  /\ ConnectFrame

\* ------------------------------------------------------------- session callbacks
\* a startAudioInput that always takes its early return (a faulty variant,
\* against which C17 is tested)
StartAudioInputSkipped(k) == UNCHANGED <<inputSourceRef, processorRef, proc>>

\* startAudioInput (lines 320-347) as reached from the onopen of call k: the
\* processor's handler closes over the isMicMuted of connect's render.
StartAudioInput(k) ==
  IF inputContextRef = 0 \/ streamRef = 0
    THEN UNCHANGED <<inputSourceRef, processorRef, proc>>
    ELSE /\ inputSourceRef' = k
         /\ processorRef' = k
         /\ proc' = [proc EXCEPT ![k] = [st |-> "attached",
                                         ctx |-> inputContextRef,
                                         stream |-> streamRef,
                                         muted |-> ccl[k].muted]]

\* callbacks.onopen (lines 281-286)
OnOpen(k) ==
  /\ mounted
  /\ session[k] = "opening"
  /\ session' = [session EXCEPT ![k] = "open"]
  /\ state' = "IDLE"
  /\ StartAudioInput(k)
  /\ UNCHANGED <<apiKey, memory, inputVolume, isMicMuted, videoResolution, error,
                 permissionRequest, isCameraActive, videoStream,
                 activeSystemAction, videoIntervalRef, videoSrcObject,
                 inputContextRef, outputContextRef, outputGainRef, streamRef,
                 sessionPromiseRef, nextStartTimeRef,
                 currentInputTranscription, currentOutputTranscription,
                 camGranted, overlayGranted, connectClosure,
                 toggleCameraClosure, cpc, ccl, cwait, inCtx, outCtx,
                 ctxStart, mic, vpc, camTrack, clock, timers, mounted>>
  /\ hist' = Other

\* callbacks.onclose (lines 290-294): the channel closed, by the remote
\* service or after a transport error
OnClose(k) ==
  /\ mounted
  /\ session[k] \in {"opening", "open", "failed"}
  /\ session' = [session EXCEPT ![k] = "closed"]
  /\ state' = "DISCONNECTED"
  /\ StopVideoInput(ccl[k].video)
  /\ UNCHANGED <<apiKey, memory, inputVolume, isMicMuted, videoResolution, error,
                 permissionRequest, activeSystemAction,
                 inputContextRef, outputContextRef, inputSourceRef,
                 processorRef, outputGainRef, streamRef,
                 sessionPromiseRef, nextStartTimeRef,
                 currentInputTranscription, currentOutputTranscription,
                 camGranted, overlayGranted, connectClosure,
                 cpc, ccl, cwait, inCtx, outCtx,
                 ctxStart, mic, proc, vpc, clock, timers, mounted>>
  /\ hist' = Hist("onclose", k, StopVideoReleased(ccl[k].video),
                  StopVideoAgain(ccl[k].video), NoOut)

\* callbacks.onerror (lines 295-304): the transport failed; its close event
\* is still to come
OnError(k, auth) ==
  /\ mounted
  /\ session[k] \in {"opening", "open"}
  /\ session' = [session EXCEPT ![k] = "failed"]
  /\ error' = IF auth THEN "Invalid API Key. Please update in settings."
                      ELSE "Connection unstable."
  /\ DisconnectBody
  /\ DisconnectFrameButSession
  /\ UNCHANGED mounted
  /\ hist' = [Hist("onerror", k, DisconnectReleased, DisconnectAgain, NoOut)
                EXCEPT !.msg = <<[auth |-> auth]>>,
                       !.order = DisconnectOrder]

\* ------------------------------------------------------------- outbound sends
\* sessionPromiseRef.current?.then(session => session.send...(payload)): the
\* send is addressed to the session the ref designates now.
Send(kind, payload) ==
  IF sessionPromiseRef = 0
    THEN <<>>
    ELSE <<[kind |-> kind, to |-> sessionPromiseRef,
            st |-> session[sessionPromiseRef], payload |-> payload]>>

\* ------------------------------------------------------------- capture
\* The isMicMuted that the onaudioprocess handler of processor k reads
\* (lines 331-337): the one its closure captured.
HandlerMuted(k) == proc[k].muted

\* an updater that works on the Mode of the render in which the handler was
\* created, where onopen had just set idle (a faulty variant, against which
\* C28 is tested)
TickPrevCaptured(k) == "IDLE"

\* The Mode that the updaters of lines 332 and 334 receive as prev: setState is
\* called with a function, which React applies to the latest Mode.
TickPrev(k) == state

\* Mode after a capture tick (lines 331-335)
TickMode(prev, rms, muted) ==
  IF rms > Threshold /\ ~muted
    THEN (IF prev = "SPEAKING" THEN "SPEAKING" ELSE "LISTENING")
    ELSE IF rms < Threshold /\ ~muted
      THEN (IF prev = "LISTENING" THEN "IDLE" ELSE prev)
      ELSE prev

\* what a capture tick sends (lines 337-342)
TickSend(muted) == IF muted THEN <<>> ELSE Send("audio", <<>>)

\* onaudioprocess of processor k (lines 326-343)
CaptureTick(k, rms) ==
  /\ mounted
  /\ proc[k].st = "attached"
  /\ inCtx[proc[k].ctx] = "open"
  /\ mic[proc[k].stream] = "live" \/ rms = 0
  /\ inputVolume' = rms
  /\ state' = TickMode(TickPrev(k), rms, HandlerMuted(k))
  /\ UNCHANGED <<apiKey, memory, isMicMuted, videoResolution, error, permissionRequest,
                 isCameraActive, videoStream, activeSystemAction, refVars,
                 envVars>>
  /\ hist' = [Hist("tick", k, {}, {}, TickSend(HandlerMuted(k)))
                EXCEPT !.mode = state]

\* toggleMic (lines 591-593); offered while Mode is not disconnected
\* (part_001 lines 206, 262-267)
ToggleMic ==
  /\ UserCanAct
  /\ state # "DISCONNECTED"
  /\ isMicMuted' = ~isMicMuted
  /\ UNCHANGED <<apiKey, state, memory, inputVolume, error, permissionRequest,
                 isCameraActive, videoStream, videoResolution,
                 activeSystemAction, refVars,
                 envVars>>
  /\ hist' = Other

\* setApiKey (lines 133-138); connect is memoised anew when apiKey changes
\* (line 318) and then closes over the current render.
SetApiKey(key) ==
  /\ UserCanAct
  /\ apiKey' = key
  /\ error' = NoError
  /\ connectClosure' = IF key # apiKey
                         THEN [muted |-> isMicMuted, video |-> videoStream]
                         ELSE connectClosure
  /\ UNCHANGED <<state, memory, inputVolume, isMicMuted, videoResolution, permissionRequest,
                 isCameraActive, videoStream, activeSystemAction, refVars,
                 camGranted, overlayGranted, toggleCameraClosure, cpc, ccl,
                 cwait, inCtx, outCtx, ctxStart, mic, session, proc, vpc,
                 camTrack, clock, timers, mounted>>
  /\ hist' = Hist("setApiKey", 0, {}, {}, NoOut)

\* ------------------------------------------------------------- vision
VideoFrame ==
  UNCHANGED <<apiKey, state, memory, inputVolume, isMicMuted, videoResolution,
              permissionRequest, activeSystemAction, inputContextRef,
              outputContextRef, inputSourceRef, processorRef, outputGainRef,
              streamRef, sessionPromiseRef, nextStartTimeRef,
              currentInputTranscription, currentOutputTranscription,
              camGranted, overlayGranted, connectClosure, cpc, ccl, cwait,
              inCtx, outCtx, ctxStart, mic, session, proc, clock, timers,
              mounted>>

\* toggleCamera with the camera on (lines 349-351): the stopVideoInput of the
\* render in which toggleCamera was memoised.  The camera control is shown
\* while Mode is not disconnected (part_001 lines 269-275).
ToggleCameraOff ==
  /\ UserCanAct
  /\ state # "DISCONNECTED"
  /\ isCameraActive
  /\ StopVideoInput(toggleCameraClosure.video)
  /\ UNCHANGED <<error, vpc>>
  /\ VideoFrame
  /\ hist' = [Hist("stopVideo", 0,
                   StopVideoReleased(toggleCameraClosure.video),
                   StopVideoAgain(toggleCameraClosure.video), NoOut)
                EXCEPT !.stale = hist.stale \cup Settling]

\* toggleCamera with the camera off: startVideoInput up to its getUserMedia
\* (lines 352-370)
ToggleCameraOn(j) ==
  /\ UserCanAct
  /\ state # "DISCONNECTED"
  /\ ~isCameraActive
  /\ vpc[j] = "none"
  /\ \A i \in Cams : i < j => vpc[i] # "none"
  /\ vpc' = [vpc EXCEPT ![j] = "get"]
  /\ UNCHANGED <<error, isCameraActive, videoStream, videoIntervalRef,
                 videoSrcObject, toggleCameraClosure, camTrack>>
  /\ VideoFrame
  /\ hist' = Other

\* getUserMedia({video}) settles (lines 368-380, 388-395)
CamGet(j, res) ==
  /\ mounted
  /\ vpc[j] = "get"
  /\ IF res = "ok"
       THEN /\ camTrack' = [camTrack EXCEPT ![j] = "live"]
            /\ videoStream' = j
            /\ isCameraActive' = TRUE
            /\ toggleCameraClosure' = IF ~isCameraActive THEN [video |-> j]
                                                         ELSE toggleCameraClosure
            /\ videoSrcObject' = j
            /\ vpc' = [vpc EXCEPT ![j] = "play"]
            /\ UNCHANGED error
       ELSE /\ error' = IF res = "NotAllowedError"
                          THEN "Camera permission denied."
                          ELSE "Camera unavailable."
            /\ vpc' = [vpc EXCEPT ![j] = "done"]
            /\ UNCHANGED <<camTrack, videoStream, isCameraActive,
                           toggleCameraClosure, videoSrcObject>>
  /\ UNCHANGED videoIntervalRef
  /\ VideoFrame
  /\ hist' = Other

\* internalVideoRef.current.play() settles (lines 380-395); a pause or a new
\* srcObject meanwhile rejects it.
CamPlay(j, ok) ==
  /\ mounted
  /\ vpc[j] = "play"
  /\ ok => videoSrcObject = j
  /\ IF ok
       THEN /\ videoIntervalRef' = j
            /\ UNCHANGED error
       ELSE /\ error' = "Camera unavailable."
            /\ UNCHANGED videoIntervalRef
  /\ vpc' = [vpc EXCEPT ![j] = "done"]
  /\ UNCHANGED <<isCameraActive, videoStream, videoSrcObject,
                 toggleCameraClosure, camTrack>>
  /\ VideoFrame
  /\ hist' = Hist("startVideo.play", j,
                  IF ok /\ videoIntervalRef # 0
                    THEN {<<"interval", videoIntervalRef>>} ELSE {}, {}, NoOut)

\* toggleResolution (lines 414-421), part of the hook's interface (line 614).
\* It is memoised on [videoResolution, isCameraActive], the dependencies of
\* toggleCamera, so its stopVideoInput is that of the same render.  With the
\* camera on it stops the capture and schedules call j of startVideoInput
\* after the settle delay; with the camera off (j = 0) it only changes the
\* tier, and the callbacks are memoised anew.
ToggleResolution(j) ==
  /\ UserCanAct
  /\ videoResolution' = IF videoResolution = "SD" THEN "HD" ELSE "SD"
  /\ IF isCameraActive
       THEN /\ j \in Cams
            /\ vpc[j] = "none"
            /\ \A i \in Cams : i < j => vpc[i] # "none"
            /\ StopVideoInput(toggleCameraClosure.video)
            /\ vpc' = [vpc EXCEPT ![j] = "delay"]
            /\ hist' = Hist("resolution", j,
                            StopVideoReleased(toggleCameraClosure.video),
                            StopVideoAgain(toggleCameraClosure.video), NoOut)
       ELSE /\ j = 0
            /\ toggleCameraClosure' = [video |-> videoStream]
            /\ UNCHANGED <<isCameraActive, videoStream, videoIntervalRef,
                           videoSrcObject, camTrack, vpc>>
            /\ hist' = Hist("resolution", 0, {}, {}, NoOut)
  /\ UNCHANGED <<apiKey, state, memory, inputVolume, isMicMuted, error,
                 permissionRequest, activeSystemAction, inputContextRef,
                 outputContextRef, inputSourceRef, processorRef, outputGainRef,
                 streamRef, sessionPromiseRef, nextStartTimeRef,
                 currentInputTranscription, currentOutputTranscription,
                 camGranted, overlayGranted, connectClosure, cpc, ccl, cwait,
                 inCtx, outCtx, ctxStart, mic, session, proc, clock, timers,
                 mounted>>

\* the timer of line 419 fires: startVideoInput(newMode) up to its
\* getUserMedia (lines 361-370).  Nothing cancels the timer and the callback
\* looks at no state.
RestartVideo(j) ==
  /\ vpc[j] = "delay"
  /\ vpc' = [vpc EXCEPT ![j] = "get"]
  /\ UNCHANGED <<error, isCameraActive, videoStream, videoIntervalRef,
                 videoSrcObject, toggleCameraClosure, camTrack>>
  /\ VideoFrame
  /\ hist' = Other

\* captureAndSendFrame, the interval's callback (lines 423-436)
VisionTick ==
  /\ mounted
  /\ videoIntervalRef # 0
  /\ UNCHANGED <<reactVars, refVars, envVars>>
  /\ hist' = Hist("frame", videoIntervalRef, {}, {}, Send("image", <<>>))

\* ------------------------------------------------------------- time
Tick ==
  /\ clock < MaxClock
  /\ clock' = clock + 1
  /\ UNCHANGED <<reactVars, refVars, camGranted, overlayGranted,
                 connectClosure, toggleCameraClosure, cpc, ccl, cwait, inCtx,
                 outCtx, ctxStart, mic, session, proc, vpc, camTrack, timers,
                 mounted>>
  /\ hist' = Other

\* the setTimeout of line 512 fires
ExpireAction(t) ==
  /\ mounted
  /\ t \in timers
  /\ clock >= t
  /\ timers' = timers \ {t}
  /\ activeSystemAction' = <<>>
  /\ UNCHANGED <<apiKey, state, memory, inputVolume, isMicMuted, videoResolution, error,
                 permissionRequest, isCameraActive, videoStream, refVars,
                 camGranted, overlayGranted, connectClosure,
                 toggleCameraClosure, cpc, ccl, cwait, inCtx, outCtx,
                 ctxStart, mic, session, proc, vpc, camTrack, clock, mounted>>
  /\ hist' = Hist("expire", t, {}, {}, NoOut)

\* ------------------------------------------------------------- tool dispatch
\* Strings are sequences of pieces; the empty string is a sequence whose
\* pieces are all empty.
Absent == "<absent>"
Truthy(text) == \E i \in 1..Len(text) : text[i] # ""

\* String.prototype.toLowerCase on the targets the model draws
ToLowerCase(str) ==
  CASE str = "YouTube" -> "youtube"
    [] str = "ON" -> "on"
    [] OTHER -> str

\* (fc.args['target'] as string || '').toLowerCase()   (line 458)
Target(fc) == IF fc.target = Absent THEN "" ELSE ToLowerCase(fc.target)

\* a description that names no argument (a faulty variant, against which C26
\* is tested)
LogTextGeneric(fc) ==
  IF fc.name \in {"executeSystemCommand", "playMedia", "sendCommunication",
                  "getInstalledApps"}
    THEN <<"Action done">> ELSE <<>>

\* logText of one function call (lines 454-507)
LogText(fc) ==
  CASE fc.name = "executeSystemCommand" ->
         (CASE fc.action = "OPEN_APP" -> <<"Opening ", Target(fc)>>
            [] fc.action = "OPEN_APP_SCREEN" -> <<"Opening ", Target(fc), "...">>
            [] fc.action = "TOGGLE_BLUETOOTH" ->
                 <<"Turning Bluetooth ", Target(fc), "...">>
            [] fc.action = "SET_BRIGHTNESS" ->
                 <<"Setting Brightness to ", Target(fc), "...">>
            [] OTHER -> <<"System: ", fc.action, " ", Target(fc)>>)
    [] fc.name = "playMedia" -> <<"Playing ", fc.query>>
    [] fc.name = "sendCommunication" ->
         (IF fc.method = "WHATSAPP_MESSAGE"
            THEN <<"Messaging ", fc.recipient>>
            ELSE <<fc.method, " to ", fc.recipient>>)
    [] fc.name = "getInstalledApps" -> <<"Checking apps...">>
    [] OTHER -> <<>>

InstalledApps == "[\"WhatsApp\",\"Instagram\",\"Spotify\",\"YouTube\",\"Gmail\",\"Maps\"]"

\* a dispatch that answers a miss with an error (a faulty variant, against which C8 is tested)
ToolResultStrict(fc) ==
  IF fc.name = "getInstalledApps" THEN InstalledApps
  ELSE IF fc.name \in {"executeSystemCommand", "playMedia", "sendCommunication"}
    THEN "SUCCESS" ELSE "ERROR"

\* result of one function call (lines 453, 505)
ToolResult(fc) ==
  IF fc.name = "getInstalledApps" THEN InstalledApps ELSE "SUCCESS"

\* one element of functionResponses (lines 519-521)
FunctionResponse(fc) ==
  [id |-> fc.id, name |-> fc.name, result |-> ToolResult(fc)]

\* a dispatch that answers only the calls it recognises (a faulty variant, against which C7 is tested)
IsCatalogued(fc) ==
  fc.name \in {"executeSystemCommand", "playMedia", "sendCommunication",
               "getInstalledApps"}
FunctionResponsesOfKnown(calls) ==
  [i \in 1..Len(SelectSeq(calls, IsCatalogued)) |->
     FunctionResponse(SelectSeq(calls, IsCatalogued)[i])]

\* toolCall.functionCalls.map(...)  (lines 452-522)
FunctionResponses(calls) ==
  [i \in 1..Len(calls) |-> FunctionResponse(calls[i])]

\* the Memory Log entries the map appends, in order (lines 509-517)
RECURSIVE ToolLogs(_)
ToolLogs(calls) ==
  IF calls = <<>> THEN <<>>
  ELSE (IF Truthy(LogText(Head(calls)))
          THEN <<[role |-> "roxy", text |-> LogText(Head(calls))]>>
          ELSE <<>>) \o ToolLogs(Tail(calls))

\* what handling the toolCall part sends (lines 524-526)
ToolSend(calls) == Send("toolResponse", FunctionResponses(calls))

\* ------------------------------------------------------------- transcript
\* String.prototype.trim
RECURSIVE TrimLeft(_)
TrimLeft(text) ==
  IF text # <<>> /\ Head(text) = " " THEN TrimLeft(Tail(text)) ELSE text
RECURSIVE TrimRight(_)
TrimRight(text) ==
  IF text # <<>> /\ text[Len(text)] = " "
    THEN TrimRight(SubSeq(text, 1, Len(text) - 1)) ELSE text
Trim(text) == TrimRight(TrimLeft(text))

\* The text a turn-completion entry ends up with.  The entry is built inside
\* the updater passed to setMemory (lines 538-545), which reads the
\* accumulator when React runs the updater: at the call when updates are
\* applied synchronously, or when this is the first update of an idle
\* component (React computes it eagerly); otherwise at the next render,
\* after lines 547-548 have cleared the accumulator.
EntryText(acc, render, first) ==
  IF render = "sync" \/ (render = "eager" /\ first) THEN acc ELSE <<>>

\* turn completion that tests the accumulators without trimming them (a
\* faulty variant, against which C12 is tested)
TurnLogsUntrimmed(inAcc, outAcc, render, first) ==
  (IF inAcc # <<>> THEN <<[role |-> "user", text |-> inAcc]>> ELSE <<>>)
  \o (IF outAcc # <<>> THEN <<[role |-> "roxy", text |-> outAcc]>> ELSE <<>>)

\* the entries appended on turn completion (lines 536-546)
TurnLogs(inAcc, outAcc, render, first) ==
  LET hasIn == Trim(inAcc) # <<>>
      hasOut == Trim(outAcc) # <<>>
  IN (IF hasIn
        THEN <<[role |-> "user", text |-> EntryText(inAcc, render, first)]>>
        ELSE <<>>)
     \o (IF hasOut
           THEN <<[role |-> "roxy",
                   text |-> EntryText(outAcc, render, first /\ ~hasIn)]>>
           ELSE <<>>)

\* ------------------------------------------------------------- playback
\* outputContextRef.current.currentTime
CurrentTime(ctx) == clock - ctxStart[ctx]

\* a chunk started at its arrival, whatever is queued (a faulty variant, against which C10 is tested)
StartTimeNow(now, cursor) == now

\* a chunk started at the cursor, wherever the clock is (a faulty variant,
\* against which C25 is tested)
StartTimeCursor(now, cursor) == cursor

\* startTime of a chunk (line 573)
StartTime(now, cursor) == Max(now, cursor)

\* does playAudioChunk get past its guard (line 569)
CanPlay == outputContextRef # 0 /\ outputGainRef # 0

\* an interruption that leaves the cursor where it was (a faulty variant,
\* against which C11 is tested)
InterruptCursorKept == nextStartTimeRef

\* the cursor after an interruption (line 559)
InterruptCursor ==
  IF outputContextRef = 0 THEN 0 ELSE CurrentTime(outputContextRef)

\* ------------------------------------------------------------- inbound messages
\* a handler in which turn completion has the last word over audio (a faulty
\* variant, against which C22 is tested)
MessageModeTurnLast(m, prev) ==
  IF m.intr \/ m.turn THEN "IDLE"
  ELSE IF m.audio # 0 THEN "SPEAKING"
  ELSE prev

\* Mode after a message (lines 549, 554, 560: the last setState wins)
MessageMode(m, prev) ==
  IF m.intr THEN "IDLE"
  ELSE IF m.audio # 0 THEN "SPEAKING"
  ELSE IF m.turn THEN "IDLE"
  ELSE prev

\* a log whose new entries go in front (a faulty variant, against which C23 is
\* tested)
PrependLog(log, entries) == entries \o log

\* setMemory(prev => [...prev, entry]) for each entry in turn (lines 514, 538,
\* 543)
AppendLog(log, entries) == log \o entries

\* handleServerMessage (lines 448-562), called by the onmessage of session k
OnMessage(k, m, render) ==
  /\ mounted
  /\ session[k] = "open"
  /\ LET toolLogs == ToolLogs(m.tool)
         inAcc == currentInputTranscription \o m.inTx
         outAcc == currentOutputTranscription \o m.outTx
         turnLogs == IF m.turn
                       THEN TurnLogs(inAcc, outAcc, render, toolLogs = <<>>)
                       ELSE <<>>
         base == IF hist.heard.done THEN NoneHeard ELSE hist.heard
         heard == [in |-> base.in \o m.inTx, out |-> base.out \o m.outTx,
                   done |-> m.turn]
         plays == m.audio # 0 /\ CanPlay
         start == StartTime(CurrentTime(outputContextRef), nextStartTimeRef)
         cursor == IF plays THEN start + m.audio ELSE nextStartTimeRef
         sched1 == IF plays
                     THEN Append(hist.sched,
                                 [start |-> start, dur |-> m.audio,
                                  at |-> CurrentTime(outputContextRef),
                                  ctx |-> outputContextRef])
                     ELSE hist.sched
     IN /\ Len(memory) + Len(toolLogs) + Len(turnLogs) <= MaxLog
        /\ Len(inAcc) <= MaxAcc
        /\ Len(outAcc) <= MaxAcc
        /\ plays => Len(hist.sched) < MaxSched
        /\ memory' = AppendLog(memory, toolLogs \o turnLogs)
        /\ activeSystemAction' =
             IF toolLogs # <<>> THEN toolLogs[Len(toolLogs)].text
                                ELSE activeSystemAction
        /\ timers' = IF toolLogs # <<>> THEN timers \cup {clock + ActionTTL}
                                        ELSE timers
        /\ currentInputTranscription' = IF m.turn THEN <<>> ELSE inAcc
        /\ currentOutputTranscription' = IF m.turn THEN <<>> ELSE outAcc
        /\ state' = MessageMode(m, state)
        /\ nextStartTimeRef' = IF m.intr THEN InterruptCursor ELSE cursor
        /\ hist' = [Hist("message", k, {}, {},
                         IF m.tool # <<>> THEN ToolSend(m.tool) ELSE NoOut)
                      EXCEPT !.msg = <<m>>,
                             !.before = Len(memory),
                             !.dropped = IF m.intr THEN sched1 ELSE <<>>,
                             !.heard = heard,
                             !.render = render,
                             !.sched = IF m.intr THEN <<>> ELSE sched1]
  /\ UNCHANGED <<apiKey, inputVolume, isMicMuted, videoResolution, error, permissionRequest,
                 isCameraActive, videoStream, videoIntervalRef, videoSrcObject,
                 inputContextRef, outputContextRef, inputSourceRef,
                 processorRef, outputGainRef, streamRef, sessionPromiseRef,
                 camGranted, overlayGranted, connectClosure,
                 toggleCameraClosure, cpc, ccl, cwait, inCtx, outCtx,
                 ctxStart, mic, session, proc, vpc, camTrack, clock, mounted>>

\* ------------------------------------------------------------- inputs
\* Function calls as the declared catalog shapes them (lines 20-87): the
\* required arguments are present, the optional ones (target, platform) may
\* be absent; one call names a tool outside the catalog.
Call(name, action, target, query, method, recipient) ==
  [id |-> 0, name |-> name, action |-> action, target |-> target,
   query |-> query, method |-> method, recipient |-> recipient]

Calls ==
  { Call("executeSystemCommand", "OPEN_APP", "YouTube", Absent, Absent, Absent),
    Call("executeSystemCommand", "TOGGLE_WIFI", Absent, Absent, Absent, Absent),
    Call("playMedia", Absent, Absent, "Song X", Absent, Absent),
    Call("sendCommunication", Absent, Absent, Absent, "WHATSAPP_MESSAGE", "+1 555"),
    Call("getInstalledApps", Absent, Absent, Absent, Absent, Absent),
    Call("setAlarm", Absent, Absent, Absent, Absent, Absent) }

Catalog == {"executeSystemCommand", "playMedia", "sendCommunication",
            "getInstalledApps"}

\* ids are the remote service's: unique within a batch, in either order
WithIds(calls, descending) ==
  [i \in 1..Len(calls) |->
     [calls[i] EXCEPT !.id = IF descending THEN Len(calls) + 1 - i ELSE i]]

Batches ==
  { WithIds(calls, d) :
      calls \in UNION {[1..n -> Calls] : n \in 1..MaxBatch}, d \in BOOLEAN }

EmptyMsg == [tool |-> <<>>, inTx |-> <<>>, outTx |-> <<>>, turn |-> FALSE,
             audio |-> 0, intr |-> FALSE]

Fragments == {<<"a">>, <<" ">>}

\* A server message is a tool call or a piece of server content, not both.
ToolMsgs == {[EmptyMsg EXCEPT !.tool = b] : b \in Batches}

Features(m) ==
  (IF m.inTx # <<>> THEN 1 ELSE 0) + (IF m.outTx # <<>> THEN 1 ELSE 0)
  + (IF m.turn THEN 1 ELSE 0) + (IF m.audio # 0 THEN 1 ELSE 0)
  + (IF m.intr THEN 1 ELSE 0)

ContentMsgs ==
  { m \in [tool : {<<>>}, inTx : Fragments \cup {<<>>},
           outTx : Fragments \cup {<<>>}, turn : BOOLEAN,
           audio : 0..MaxDur, intr : BOOLEAN] : Features(m) \in 1..2 }

Messages == ToolMsgs \cup ContentMsgs
Renders(m) == IF m.turn THEN {"sync", "eager", "deferred"} ELSE {"sync"}
MediaErrors == {"ok", "NotAllowedError", "NotFoundError"}
Keys == {"key"}

\* ------------------------------------------------------------- specifications
\* Spec: the whole life cycle of one call of connect, with every outcome of
\* the permission prompts and of the platform, the camera, the mute switch,
\* the credential and the unmount; the remote service opens, closes, fails
\* and sends tool calls.
First == {1}
FirstCam == {1}
LifeMessages == {[EmptyMsg EXCEPT !.tool = WithIds(<<c>>, FALSE)] :
                   c \in {c \in Calls : c.name = "setAlarm"}}

Next ==
  \/ ConnectNoKey
  \/ \E k \in First : Connect(k)
  \/ \E k \in Conn, ok \in BOOLEAN : PermMic(k, ok)
  \/ \E k \in Conn, c \in BOOLEAN : PermissionAnswer(k, c)
  \/ \E k \in Conn, ok \in BOOLEAN : PermMic2(k, ok)
  \/ \E k \in Conn, ok \in BOOLEAN : PermCam(k, ok)
  \/ \E k \in Conn, ok \in BOOLEAN : ResumeIn(k, ok)
  \/ \E k \in Conn, ok \in BOOLEAN : ResumeOut(k, ok)
  \/ \E k \in Conn, res \in MediaErrors : GetMic(k, res)
  \/ \E k \in Conn : OnOpen(k)
  \/ \E k \in Conn : OnClose(k)
  \/ \E k \in Conn, auth \in BOOLEAN : OnError(k, auth)
  \/ \E k \in Conn, m \in LifeMessages : OnMessage(k, m, "sync")
  \/ \E k \in Conn, rms \in Levels : CaptureTick(k, rms)
  \/ ToggleMic
  \/ \E key \in Keys : SetApiKey(key)
  \/ ToggleCameraOff
  \/ \E j \in FirstCam : ToggleCameraOn(j)
  \/ \E j \in Cams, res \in MediaErrors : CamGet(j, res)
  \/ \E j \in Cams, ok \in BOOLEAN : CamPlay(j, ok)
  \/ VisionTick
  \/ Disconnect
  \/ Unmount

Spec == Init /\ [][Next]_vars

\* SpecReconnect: connect called again and again (up to MaxConnects calls),
\* with every outcome of the permission prompts and of the platform; no
\* camera, no mute switch.
NextReconnect ==
  \/ \E k \in Conn : Connect(k)
  \/ \E k \in Conn, ok \in BOOLEAN : PermMic(k, ok)
  \/ \E k \in Conn, c \in BOOLEAN : PermissionAnswer(k, c)
  \/ \E k \in Conn, ok \in BOOLEAN : PermMic2(k, ok)
  \/ \E k \in Conn, ok \in BOOLEAN : PermCam(k, ok)
  \/ \E k \in Conn, ok \in BOOLEAN : ResumeIn(k, ok)
  \/ \E k \in Conn, ok \in BOOLEAN : ResumeOut(k, ok)
  \/ \E k \in Conn, res \in MediaErrors : GetMic(k, res)
  \/ \E k \in Conn : OnOpen(k)
  \/ \E k \in Conn : OnClose(k)
  \/ \E k \in Conn, auth \in BOOLEAN : OnError(k, auth)
  \/ \E k \in Conn, rms \in Levels : CaptureTick(k, rms)
  \/ Disconnect

SpecReconnect == Init /\ [][NextReconnect]_vars

\* The steps of one connect whose prompts are all confirmed and whose platform
\* calls all succeed, and what ends a session.
Session ==
  \/ \E k \in First : Connect(k)
  \/ \E k \in Conn : PermMic(k, TRUE)
  \/ \E k \in Conn : PermissionAnswer(k, TRUE)
  \/ \E k \in Conn : PermCam(k, TRUE)
  \/ \E k \in Conn : ResumeIn(k, TRUE)
  \/ \E k \in Conn : ResumeOut(k, TRUE)
  \/ \E k \in Conn : GetMic(k, "ok")
  \/ \E k \in Conn : OnOpen(k)
  \/ \E k \in Conn : OnClose(k)
  \/ Disconnect

\* SpecTools: sessions that receive batches of tool calls, while time passes
\* and the action notifications expire.
NextTools ==
  \/ Session
  \/ \E k \in Conn, m \in ToolMsgs : OnMessage(k, m, "sync")
  \/ Tick
  \/ \E t \in 0..(MaxClock + ActionTTL) : ExpireAction(t)

SpecTools == Init /\ [][NextTools]_vars

\* SpecPlay: sessions that receive audio chunks and interruption markers at
\* arbitrary clock times.
PlayMsgs == {m \in ContentMsgs : m.inTx = <<>> /\ m.outTx = <<>> /\ ~m.turn}

NextPlay ==
  \/ Session
  \/ \E k \in Conn, m \in PlayMsgs : OnMessage(k, m, "sync")
  \/ Tick

SpecPlay == Init /\ [][NextPlay]_vars

\* SpecTurns: sessions that receive transcription fragments of both
\* directions and turn-completion markers, under every timing of React's
\* state updaters.
TurnMsgs == {m \in ContentMsgs : m.audio = 0 /\ ~m.intr}

NextTurns ==
  \/ Session
  \/ \E k \in Conn, m \in TurnMsgs :
       \E render \in Renders(m) : OnMessage(k, m, render)

SpecTurns == Init /\ [][NextTurns]_vars

\* SpecLive: one connect whose permissions are granted (at once, or after the
\* prompt), whose platform calls succeed and whose session the remote service
\* acknowledges, with no disconnect and no error.  Promises settle, the user
\* answers the prompts, the service acknowledges and the script processor
\* keeps firing: weak fairness on these steps.
Progress ==
  \/ \E k \in Conn, ok \in BOOLEAN : PermMic(k, ok)
  \/ \E k \in Conn : PermissionAnswer(k, TRUE)
  \/ \E k \in Conn : PermMic2(k, TRUE)
  \/ \E k \in Conn, ok \in BOOLEAN : PermCam(k, ok)
  \/ \E k \in Conn : ResumeIn(k, TRUE)
  \/ \E k \in Conn : ResumeOut(k, TRUE)
  \/ \E k \in Conn : GetMic(k, "ok")
  \/ \E k \in Conn : OnOpen(k)

Capture == \E k \in Conn, rms \in Levels : CaptureTick(k, rms)

NextLive ==
  \/ \E k \in First : Connect(k)
  \/ Progress
  \/ Capture
  \/ ToggleMic
  \/ Tick

SpecLive == Init /\ [][NextLive]_vars /\ WF_vars(Progress) /\ WF_vars(Capture)

\* SpecCapture: sessions whose capture ticks interleave with the mute switch,
\* with inbound audio and with the end of the session, and that are opened
\* again, possibly after the credential was replaced.  A connect is called
\* when no earlier call is still under way.
NewKeys == {"key", "key2"}
AudioMsgs == {[EmptyMsg EXCEPT !.audio = 1]}

NextCapture ==
  \/ \E k \in Conn : (\A i \in Conn : cpc[i] \in {"none", "returned"})
                       /\ Connect(k)
  \/ \E k \in Conn : PermMic(k, TRUE)
  \/ \E k \in Conn : PermissionAnswer(k, TRUE)
  \/ \E k \in Conn : PermCam(k, TRUE)
  \/ \E k \in Conn : ResumeIn(k, TRUE)
  \/ \E k \in Conn : ResumeOut(k, TRUE)
  \/ \E k \in Conn : GetMic(k, "ok")
  \/ \E k \in Conn : OnOpen(k)
  \/ \E k \in Conn : OnClose(k)
  \/ \E k \in Conn, m \in AudioMsgs : OnMessage(k, m, "sync")
  \/ \E k \in Conn, rms \in Levels : CaptureTick(k, rms)
  \/ ToggleMic
  \/ \E key \in NewKeys : SetApiKey(key)
  \/ Disconnect

SpecCapture == Init /\ [][NextCapture]_vars

\* SpecModes: sessions that receive audio, turn-completion and interruption
\* markers, alone or two in one message, interleaved with capture ticks and
\* the passing of time.
ModeMsgs == {m \in ContentMsgs : m.inTx = <<>> /\ m.outTx = <<>>}

NextModes ==
  \/ Session
  \/ \E k \in Conn, m \in ModeMsgs : OnMessage(k, m, "sync")
  \/ \E k \in Conn, rms \in Levels : CaptureTick(k, rms)
  \/ Tick

SpecModes == Init /\ [][NextModes]_vars

\* SpecResume: a session that plays audio is disconnected and a new one is
\* opened, which plays audio on its own output context, while time passes.
ChunkMsgs == {[EmptyMsg EXCEPT !.audio = d] : d \in 1..MaxDur}

NextResume ==
  \/ \E k \in Conn : (\A i \in Conn : cpc[i] \in {"none", "returned"})
                       /\ Connect(k)
  \/ \E k \in Conn : PermMic(k, TRUE)
  \/ \E k \in Conn : PermissionAnswer(k, TRUE)
  \/ \E k \in Conn : PermCam(k, TRUE)
  \/ \E k \in Conn : ResumeIn(k, TRUE)
  \/ \E k \in Conn : ResumeOut(k, TRUE)
  \/ \E k \in Conn : GetMic(k, "ok")
  \/ \E k \in Conn : OnOpen(k)
  \/ \E k \in Conn, m \in ChunkMsgs : OnMessage(k, m, "sync")
  \/ Disconnect
  \/ Tick

SpecResume == Init /\ [][NextResume]_vars

\* SpecVision: one session whose camera is switched on and off and whose
\* resolution tier is switched, with every outcome of the video element's
\* play; the session is disconnected or closed at any moment.
NextVision ==
  \/ Session
  \/ \E j \in Cams : ToggleCameraOn(j)
  \/ \E j \in Cams : CamGet(j, "ok")
  \/ \E j \in Cams, ok \in BOOLEAN : CamPlay(j, ok)
  \/ ToggleCameraOff
  \/ \E j \in Cams \cup {0} : ToggleResolution(j)
  \/ \E j \in Cams : RestartVideo(j)
  \/ VisionTick

SpecVision == Init /\ [][NextVision]_vars

\* ============================================================= claims
Released(op) == op \in {"disconnect", "onerror"}
SessionLive(k) == session[k] \in {"opening", "open"}
MidSetup(k) == cpc[k] \notin {"none", "returned"}

\* C1: at most one session, one pair of audio contexts and one microphone
\* stream is open or being set up at any time; a connect called while an
\* earlier call is mid-setup or while a session is open starts no second one.
C1_SingleSession ==
  /\ Cardinality({k \in Conn : MidSetup(k) \/ SessionLive(k)}) <= 1
  /\ Cardinality({k \in Conn : inCtx[k] = "open"}) <= 1
  /\ Cardinality({k \in Conn : outCtx[k] = "open"}) <= 1
  /\ Cardinality({k \in Conn : mic[k] = "live"}) <= 1

\* C2: Mode = disconnected implies that capture and playback are inactive: no
\* processor attached, no microphone track live, both audio contexts closed.
C2_DisconnectedIsInactive ==
  state = "DISCONNECTED" =>
    \A k \in Conn : /\ proc[k].st # "attached"
                    /\ mic[k] # "live"
                    /\ inCtx[k] # "open"
                    /\ outCtx[k] # "open"

\* C3: when disconnect returns (user request, inbound error, unmount), every
\* resource is released: processor detached, frame interval cleared, every
\* microphone and camera track stopped, both audio contexts closed.
C3_DisconnectReleasesAll ==
  Released(hist.op) =>
    /\ \A k \in Conn : /\ proc[k].st # "attached"
                       /\ mic[k] # "live"
                       /\ inCtx[k] # "open"
                       /\ outCtx[k] # "open"
    /\ videoIntervalRef = 0
    /\ \A j \in Cams : camTrack[j] # "live"

\* C4: disconnect is idempotent: a disconnect that directly follows a
\* disconnect changes nothing (Mode stays disconnected, the resource refs stay
\* empty) and stops, disconnects or closes nothing a second time.
HandlesEmpty ==
  /\ processorRef = 0 /\ inputSourceRef = 0 /\ streamRef = 0
  /\ inputContextRef = 0 /\ outputContextRef = 0 /\ videoIntervalRef = 0
resources == <<apiKey, state, memory, inputVolume, isMicMuted, videoResolution,
               permissionRequest, isCameraActive, videoStream,
               activeSystemAction, refVars, camGranted, overlayGranted,
               connectClosure, toggleCameraClosure, cpc, ccl, cwait, inCtx,
               outCtx, ctxStart, mic, proc, vpc, camTrack, clock, timers>>
C5_SessionDestroyed ==
  (Released(hist.op) \/ hist.op = "onclose") =>
    \A k \in Conn : ~SessionLive(k)

\* C6: a capture tick that fires while the microphone is muted sends no audio.
C6_MutedSendsNothing ==
  (hist.op = "tick" /\ isMicMuted) => hist.out = <<>>

\* the tool calls of the message just handled, and the response sent for it
LastCalls == hist.msg[1].tool
ToolMessageHandled ==
  hist.op = "message" /\ hist.msg # <<>> /\ hist.msg[1].tool # <<>>

\* C7: a batch of N tool calls gets exactly one tool-response message, with
\* exactly N results, the i-th carrying the id and the name of the i-th call.
C7_OneResultPerCall ==
  ToolMessageHandled =>
    /\ Len(hist.out) = 1
    /\ hist.out[1].kind = "toolResponse"
    /\ Len(hist.out[1].payload) = Len(LastCalls)
    /\ \A i \in 1..Len(LastCalls) :
         /\ hist.out[1].payload[i].id = LastCalls[i].id
         /\ hist.out[1].payload[i].name = LastCalls[i].name
\* a batch of two calls with ids out of order, one outside the catalog
C7_Witness ==
  /\ ToolMessageHandled
  /\ Len(LastCalls) = 2
  /\ LastCalls[1].id = 2
  /\ LastCalls[1].name \notin Catalog
  /\ LastCalls[2].name \in Catalog
  /\ Len(hist.out) = 1

\* C8: a tool call whose name is outside the catalog gets the result
\* "SUCCESS", and the response of its batch is sent.
C8_UnknownToolSucceeds ==
  ToolMessageHandled =>
    /\ Len(hist.out) = 1
    /\ \A i \in 1..Len(LastCalls) :
         LastCalls[i].name \notin Catalog =>
           /\ i <= Len(hist.out[1].payload)
           /\ hist.out[1].payload[i].result = "SUCCESS"
C8_Witness ==
  /\ ToolMessageHandled
  /\ \E i \in 1..Len(LastCalls) : LastCalls[i].name \notin Catalog
  /\ \E i \in 1..Len(LastCalls) : LastCalls[i].name = "getInstalledApps"
  /\ Len(hist.out) = 1

\* C9: every unsupported action (a tool outside the catalog, or an action the
\* device tool does not know) appends a Memory Log entry that describes it.
KnownActions == {"OPEN_APP", "OPEN_APP_SCREEN", "TOGGLE_BLUETOOTH",
                 "SET_BRIGHTNESS"}
Unsupported(fc) ==
  \/ fc.name \notin Catalog
  \/ fc.name = "executeSystemCommand" /\ fc.action \notin KnownActions
Describes(text, fc) ==
  \E i \in 1..Len(text) : text[i] \in {fc.name, fc.action}
C9_UnsupportedIsLogged ==
  ToolMessageHandled =>
    \A i \in 1..Len(LastCalls) :
      Unsupported(LastCalls[i]) =>
        \E n \in (hist.before + 1)..Len(memory) :
          Describes(memory[n].text, LastCalls[i])
\* the part of C9 the code does implement: an unknown action of the device
\* tool is logged
C9_UnknownActionIsLogged ==
  ToolMessageHandled =>
    \A i \in 1..Len(LastCalls) :
      (LastCalls[i].name = "executeSystemCommand"
         /\ LastCalls[i].action \notin KnownActions) =>
        \E n \in (hist.before + 1)..Len(memory) :
          Describes(memory[n].text, LastCalls[i])

\* C10: audio chunks scheduled with no interruption in between never overlap,
\* and the n-th starts no earlier than the first start plus the durations of
\* the chunks before it.
RECURSIVE SumDur(_, _)
SumDur(sched, n) == IF n = 0 THEN 0 ELSE sched[n].dur + SumDur(sched, n - 1)
C10_NoOverlap ==
  LET sched == hist.sched
  IN /\ \A i, j \in 1..Len(sched) :
          i < j => sched[j].start >= sched[i].start + sched[i].dur
     /\ \A n \in 1..Len(sched) :
          sched[n].start >= sched[1].start + SumDur(sched, n - 1)
\* two chunks back to back although the second arrived later, and one that
\* arrived after the cursor had passed
C10_Witness ==
  LET sched == hist.sched
  IN /\ Len(sched) >= 3
     /\ sched[2].start > sched[1].start + sched[1].dur
     /\ sched[3].start = sched[2].start + sched[2].dur
     /\ sched[3].start > clock - ctxStart[1]

\* C11: handling an interruption marker sets the playback cursor to the output
\* clock's current time: not after the clock, and before every start time
\* scheduled earlier that was still in the future; the first chunk scheduled
\* after an interruption starts at the clock time of its arrival.
Interrupted ==
  /\ hist.op = "message" /\ hist.msg # <<>> /\ hist.msg[1].intr
  /\ outputContextRef # 0
C11_InterruptResetsCursor ==
  /\ Interrupted =>
       /\ nextStartTimeRef = CurrentTime(outputContextRef)
       /\ nextStartTimeRef <= clock
       /\ \A i \in 1..Len(hist.dropped) :
            hist.dropped[i].start > CurrentTime(outputContextRef) =>
              nextStartTimeRef < hist.dropped[i].start
  /\ hist.sched # <<>> => hist.sched[1].start = hist.sched[1].at
\* an interruption has discarded a chunk that was still to start, and the
\* cursor has come back from beyond the clock
C11_Witness ==
  /\ Interrupted
  /\ \E i \in 1..Len(hist.dropped) :
       /\ hist.dropped[i].start > CurrentTime(outputContextRef)
       /\ hist.dropped[i].at < CurrentTime(outputContextRef)
  /\ nextStartTimeRef > 0

\* the turn just completed, and the entries its completion appended
TurnCompleted ==
  hist.op = "message" /\ hist.msg # <<>> /\ hist.msg[1].turn
Appended == SubSeq(memory, hist.before + 1, Len(memory))
NonEmpty(text) == Trim(text) # <<>>

\* C12: a turn completion appends as many entries as there are accumulators
\* that are non-empty after trimming (0, 1 or 2): a user entry for the input,
\* an assistant entry for the output, the user entry first.
C12_TurnEntries ==
  TurnCompleted =>
    /\ Len(Appended) = (IF NonEmpty(hist.heard.in) THEN 1 ELSE 0)
                        + (IF NonEmpty(hist.heard.out) THEN 1 ELSE 0)
    /\ NonEmpty(hist.heard.in) => Appended[1].role = "user"
    /\ NonEmpty(hist.heard.out) => Appended[Len(Appended)].role = "roxy"
\* a turn with a whitespace-only input and a non-empty output has appended
\* one assistant entry
C12_Witness ==
  /\ TurnCompleted
  /\ hist.heard.in # <<>> /\ ~NonEmpty(hist.heard.in)
  /\ NonEmpty(hist.heard.out)
  /\ Len(Appended) = 1 /\ Appended[1].role = "roxy"
\* ... and a turn with both has appended the user entry, then the assistant's
C12_WitnessBoth ==
  /\ TurnCompleted
  /\ Len(Appended) = 2
  /\ Appended[1].role = "user" /\ Appended[2].role = "roxy"

\* C13: the text of an entry appended on turn completion is the concatenation,
\* in arrival order, of the fragments of its direction received since the
\* previous turn completion, trimmed of surrounding whitespace.
C13_EntryText ==
  TurnCompleted =>
    \A n \in 1..Len(Appended) :
      Appended[n].text = IF Appended[n].role = "user"
                           THEN Trim(hist.heard.in)
                           ELSE Trim(hist.heard.out)
\* the part of C13 the code implements when the updaters run at the call: the
\* untrimmed concatenation
C13_EntryTextUntrimmed ==
  (TurnCompleted /\ hist.render = "sync") =>
    \A n \in 1..Len(Appended) :
      Appended[n].text = IF Appended[n].role = "user"
                           THEN hist.heard.in ELSE hist.heard.out

\* C14: connect with no credential sets the error to the credential message
\* and does nothing else: Mode stays disconnected, no prompt is shown, no
\* audio context, microphone stream or session is created, and no continuation
\* of the call is left pending.
CredentialMessage == "API Key missing. Please configure it in settings."
C14_NoCredentialNoAttempt ==
  [][ hist'.op = "connect.nokey" =>
        /\ apiKey = ""
        /\ error' = CredentialMessage
        /\ state' = "DISCONNECTED"
        /\ UNCHANGED <<permissionRequest, refVars, cpc, inCtx, outCtx, mic,
                       session, proc>>
        /\ \A k \in Conn : ~MidSetup(k)' /\ inCtx'[k] = "none"
                             /\ mic'[k] = "none" /\ session'[k] = "none" ]_vars
\* the call has been made
C14_Witness ==
  /\ hist.op = "connect.nokey"
  /\ error = CredentialMessage
  /\ apiKey = ""
  /\ state = "DISCONNECTED"

\* C15: when the microphone permission is not granted during connect (the
\* user declines the prompt, or the device refuses after the prompt was
\* confirmed), connect aborts: Mode stays disconnected, the call has created
\* no audio context, microphone stream or session, and the error is a
\* permission message, distinct from the credential message.
PermissionMessages == {"Microphone permission denied.",
                       "Microphone access needed for voice commands."}
NothingCreated(k) ==
  /\ inCtx[k] = "none" /\ outCtx[k] = "none"
  /\ mic[k] = "none" /\ session[k] = "none"
  /\ ~MidSetup(k)
C15_PermissionAbort ==
  hist.op \in {"connect.declined", "connect.refused"} =>
    /\ state = "DISCONNECTED"
    /\ NothingCreated(hist.who)
    /\ error \in PermissionMessages
\* the part of C15 the code implements: the abort is without side effects in
\* both cases, and the refusal of the device is reported
C15_RefusalReported ==
  /\ hist.op \in {"connect.declined", "connect.refused"} =>
       state = "DISCONNECTED" /\ NothingCreated(hist.who)
  /\ hist.op = "connect.refused" => error = "Microphone permission denied."

\* C16: every inbound error event forces a full disconnect: after the handler
\* Mode is disconnected, every capture and playback resource is released
\* (processor, microphone and camera tracks, frame interval, both audio
\* contexts), no session is open or opening, and the error is the
\* invalid-credential message for an authentication failure and the
\* "connection unstable" message otherwise.
ErrorMessage(auth) == IF auth THEN "Invalid API Key. Please update in settings."
                              ELSE "Connection unstable."
AudioReleased ==
  \A k \in Conn : /\ proc[k].st # "attached"
                  /\ mic[k] # "live"
                  /\ inCtx[k] # "open"
                  /\ outCtx[k] # "open"
C16_ErrorForcesDisconnect ==
  hist.op = "onerror" =>
    /\ state = "DISCONNECTED"
    /\ AudioReleased
    /\ videoIntervalRef = 0
    /\ \A j \in Cams : camTrack[j] # "live"
    /\ \A k \in Conn : ~SessionLive(k)
    /\ error = ErrorMessage(hist.msg[1].auth)
\* the part of C16 that holds: everything but the camera track
C16_ErrorReleasesAudio ==
  hist.op = "onerror" =>
    /\ state = "DISCONNECTED"
    /\ AudioReleased
    /\ videoIntervalRef = 0
    /\ \A k \in Conn : ~SessionLive(k)
    /\ error = ErrorMessage(hist.msg[1].auth)

\* C17: once connect is called with a credential, if the permissions are
\* granted, the acquisitions succeed, the service acknowledges the session
\* and nothing disconnects, Mode eventually is idle with the capture pipeline
\* attached, and capture ticks are eventually processed.
ConnectCalled == \E k \in Conn : cpc[k] = "perm_mic"
PipelineAttached ==
  \E k \in Conn : processorRef = k /\ proc[k].st = "attached"
C17_ConnectLive ==
  /\ ConnectCalled ~> (state = "IDLE" /\ PipelineAttached)
  /\ ConnectCalled ~> (hist.op = "tick" /\ PipelineAttached)
\* a tick has been processed by the pipeline of a connect whose prompts were
\* confirmed
C17_Witness ==
  /\ hist.op = "tick"
  /\ PipelineAttached
  /\ overlayGranted

Ticked == hist.op = "tick"

\* C18: a capture tick below the threshold while the mic is unmuted sets Mode
\* to idle if and only if Mode was listening; from every other Mode it leaves
\* Mode unchanged.
C18_QuietTick ==
  (Ticked /\ ~isMicMuted /\ inputVolume < Threshold) =>
    state = IF hist.mode = "LISTENING" THEN "IDLE" ELSE hist.mode

\* C19: a capture tick above the threshold while the mic is unmuted sets Mode
\* to listening from idle or listening, and leaves speaking alone.
C19_LoudTick ==
  (Ticked /\ ~isMicMuted /\ inputVolume > Threshold) =>
    /\ hist.mode \in {"IDLE", "LISTENING"} => state = "LISTENING"
    /\ hist.mode = "SPEAKING" => state = "SPEAKING"

\* C20: while the mic is muted a capture tick leaves Mode unchanged, whatever
\* the level.
C20_MutedTick ==
  (Ticked /\ isMicMuted) => state = hist.mode

\* What the code implements of C18, C19 and C20: the three hold of the mute
\* flag that the handler captured when connect was memoised.
C18_QuietTickAsCaptured ==
  (Ticked /\ ~HandlerMuted(hist.who) /\ inputVolume < Threshold) =>
    state = IF hist.mode = "LISTENING" THEN "IDLE" ELSE hist.mode
C19_LoudTickAsCaptured ==
  (Ticked /\ ~HandlerMuted(hist.who) /\ inputVolume > Threshold) =>
    /\ hist.mode \in {"IDLE", "LISTENING"} => state = "LISTENING"
    /\ hist.mode = "SPEAKING" => state = "SPEAKING"
C20_MutedTickAsCaptured ==
  (Ticked /\ HandlerMuted(hist.who)) => state = hist.mode

ContentHandled == hist.op = "message" /\ hist.msg # <<>>
LastMsg == hist.msg[1]

\* C21: after a message that signals turn completion or an interruption, Mode
\* is idle, whatever Mode was and whatever else the message carries; an
\* interruption also resets the cursor to the clock.
C21_TurnOrInterruptIdles ==
  (ContentHandled /\ (LastMsg.turn \/ LastMsg.intr)) =>
    /\ state = "IDLE"
    /\ (LastMsg.intr /\ outputContextRef # 0) =>
         nextStartTimeRef = CurrentTime(outputContextRef)
\* the part of C21 that holds: an interruption, and a turn completion that
\* comes without audio
C21_IdleUnlessAudio ==
  (ContentHandled /\ (LastMsg.intr \/ (LastMsg.turn /\ LastMsg.audio = 0))) =>
    /\ state = "IDLE"
    /\ (LastMsg.intr /\ outputContextRef # 0) =>
         nextStartTimeRef = CurrentTime(outputContextRef)

\* C22 as stated: after a message that carries inline audio, Mode is speaking.
C22_AudioSpeaks ==
  (ContentHandled /\ LastMsg.audio # 0) => state = "SPEAKING"
\* C22, amended: after a message that carries inline audio and no interruption
\* marker, Mode is speaking, from any prior Mode and also when the message
\* completes the turn; the chunk goes to playAudioChunk, which schedules it
\* whenever the output context and its gain node exist.
C22_AudioSpeaksUnlessInterrupted ==
  (ContentHandled /\ LastMsg.audio # 0 /\ ~LastMsg.intr) =>
    /\ state = "SPEAKING"
    /\ CanPlay =>
         /\ hist.sched # <<>>
         /\ hist.sched[Len(hist.sched)].dur = LastMsg.audio
         /\ hist.sched[Len(hist.sched)].at = CurrentTime(outputContextRef)
         /\ nextStartTimeRef = hist.sched[Len(hist.sched)].start + LastMsg.audio
\* audio has arrived while Mode was listening and has been scheduled
C22_Witness ==
  /\ ContentHandled /\ LastMsg.audio # 0 /\ ~LastMsg.intr
  /\ state = "SPEAKING"
  /\ inputVolume > Threshold
  /\ Len(hist.sched) >= 2

\* C28: the level transitions work on the latest Mode: a tick applied right
\* after an inbound-audio event finds Mode speaking and leaves it, a tick
\* applied right after a turn-completion event finds Mode idle.  (Events:
\* a message that carries audio and no interruption marker; a message that
\* completes the turn and carries no audio.)
AudioEvent == ContentHandled /\ LastMsg.audio # 0 /\ ~LastMsg.intr
TurnEvent == ContentHandled /\ LastMsg.turn /\ LastMsg.audio = 0
C28_TickReadsLatestMode ==
  [][ hist'.op = "tick" =>
        /\ AudioEvent => state' = "SPEAKING"
        /\ TurnEvent =>
             state' = TickMode("IDLE", inputVolume', HandlerMuted(hist'.who))
        /\ state' = TickMode(state, inputVolume', HandlerMuted(hist'.who)) ]_vars
\* a loud tick has found Mode speaking, as an audio message had set it, and
\* has left it
C28_Witness ==
  /\ hist.op = "tick"
  /\ hist.mode = "SPEAKING"
  /\ inputVolume > Threshold
  /\ state = "SPEAKING"
  /\ hist.sched # <<>>

\* C23: the Memory Log is append-only: every step leaves the log as it was or
\* extends it at the end; no operation (disconnect included) deletes,
\* reorders or modifies an entry.
IsPrefix(s, u) == Len(s) <= Len(u) /\ SubSeq(u, 1, Len(s)) = s
Rank(step) ==
  CASE step \in {"processor", "source"} -> 1
    [] step = "interval" -> 2
    [] step \in {"camera", "mic"} -> 3
    [] step \in {"inCtx", "outCtx"} -> 4
C24_ReleaseOrder ==
  Released(hist.op) =>
    \A i, j \in 1..Len(hist.order) :
      i < j => Rank(hist.order[i]) <= Rank(hist.order[j])
\* the part of C24 that holds: the capture pipeline goes first and the
\* microphone track is stopped before the contexts are closed
C24_CaptureFirst ==
  Released(hist.op) =>
    \A i, j \in 1..Len(hist.order) :
      (i < j /\ hist.order[i] # "interval" /\ hist.order[j] # "interval")
        => Rank(hist.order[i]) <= Rank(hist.order[j])

\* C25: a chunk starts at max(clock at arrival, cursor) and the cursor then
\* is its start plus its duration: it never starts before the clock at its
\* arrival, it starts exactly at the end of the chunk before when it arrived
\* no later than that end, and a gap appears only when the clock had passed
\* the cursor.
EndOf(chunk) == chunk.start + chunk.dur
C25_ScheduleAtMax ==
  LET sched == hist.sched
  IN /\ \A i \in 1..Len(sched) : sched[i].start >= sched[i].at
     /\ \A i \in 2..Len(sched) :
          /\ sched[i].start = Max(sched[i].at, EndOf(sched[i - 1]))
          /\ sched[i].at <= EndOf(sched[i - 1]) =>
               sched[i].start = EndOf(sched[i - 1])
          /\ sched[i].start > EndOf(sched[i - 1]) =>
               sched[i].at > EndOf(sched[i - 1])
     /\ (sched # <<>> /\ hist.op = "message") =>
          nextStartTimeRef = EndOf(sched[Len(sched)])
\* a chunk that arrived before the end of the one before it and follows it
\* without a gap, then the clock has passed the cursor
C25_Witness ==
  LET sched == hist.sched
  IN /\ Len(sched) = 2
     /\ sched[2].at < EndOf(sched[1])
     /\ sched[2].start = EndOf(sched[1])
     /\ outputContextRef # 0
     /\ CurrentTime(outputContextRef) > nextStartTimeRef

\* the calls of the last batch that name a tool of the catalog, and the entry
\* appended for each
Recognized(fc) == fc.name \in Catalog
RecognizedCalls == SelectSeq(LastCalls, Recognized)
Contains(text, arg) == \E i \in 1..Len(text) : text[i] = arg
HasKeyArgument(fc) ==
  \/ fc.name \in {"playMedia", "sendCommunication"}
  \/ fc.name = "executeSystemCommand" /\ fc.target # Absent
KeyArgument(fc) ==
  CASE fc.name = "playMedia" -> fc.query
    [] fc.name = "sendCommunication" -> fc.recipient
    [] fc.name = "executeSystemCommand" -> fc.target
KeyArgumentAsLogged(fc) ==
  IF fc.name = "executeSystemCommand" THEN ToLowerCase(fc.target)
                                      ELSE KeyArgument(fc)
OneEntryPerRecognizedCall ==
  /\ Len(Appended) = Len(RecognizedCalls)
  /\ \A n \in 1..Len(Appended) : Appended[n].role = "roxy"
  /\ RecognizedCalls # <<>> =>
       activeSystemAction = Appended[Len(Appended)].text

\* C26 as stated: each call of a recognized tool appends exactly one entry,
\* with role assistant and a description that contains the call's key
\* argument, and sets the notification to that description; N calls append
\* N entries in batch order.
C26_EntryNamesArgument ==
  ToolMessageHandled =>
    /\ OneEntryPerRecognizedCall
    /\ \A n \in 1..Len(Appended) :
         (n <= Len(RecognizedCalls) /\ HasKeyArgument(RecognizedCalls[n])) =>
           Contains(Appended[n].text, KeyArgument(RecognizedCalls[n]))
\* C26, amended: the description contains the query of playMedia, the
\* recipient of sendCommunication and the target of executeSystemCommand in
\* lower case; after a batch the notification shows the description of the
\* last recognized call.
C26_EntryNamesArgumentAsLogged ==
  ToolMessageHandled =>
    /\ OneEntryPerRecognizedCall
    /\ \A n \in 1..Len(Appended) :
         (n <= Len(RecognizedCalls) /\ HasKeyArgument(RecognizedCalls[n])) =>
           Contains(Appended[n].text, KeyArgumentAsLogged(RecognizedCalls[n]))
\* a batch of two recognized calls has appended its two entries in order
C26_Witness ==
  /\ ToolMessageHandled
  /\ Len(RecognizedCalls) = 2
  /\ RecognizedCalls[1].name = "playMedia"
  /\ RecognizedCalls[2].name = "executeSystemCommand"
  /\ HasKeyArgument(RecognizedCalls[2])
  /\ Len(Appended) = 2
  /\ Contains(Appended[1].text, "Song X")
  /\ activeSystemAction = Appended[2].text

\* C27: a notification set at time t stays until t + 3 s unless a newer one
\* replaces it: when an expiry timer clears the notification, no dispatch is
\* younger than 3 s (no timer set by a later dispatch is still to come due).
C27_ExpiryKeepsNewer ==
  hist.op = "expire" => \A t \in timers : t <= clock
\* the part of C27 that holds: a timer clears the notification no earlier
\* than 3 s after the dispatch that set the timer
C27_ExpiryNotEarly ==
  hist.op = "expire" => (hist.who <= clock /\ activeSystemAction = <<>>)

\* C29: when connect, a credential update or a camera enable completes
\* successfully, the current error is null afterwards.
CameraEnabled ==
  hist.op = "startVideo.play" /\ videoIntervalRef = hist.who
C29_SuccessClearsError ==
  (hist.op \in {"connect.done", "setApiKey"} \/ CameraEnabled) =>
    error = NoError
\* the part of C29 that holds: a credential update clears the error
C29_KeyUpdateClearsError ==
  hist.op = "setApiKey" => error = NoError
\* a successful camera enable never changes the error
C29_CameraKeepsError ==
  [][ CameraEnabled' => error' = error ]_vars

\* C30: once Mode is disconnected it stays disconnected until a connect
\* called by the user passes its permission check: no capture tick, vision
\* tick, session-open acknowledgment or late inbound message moves it.
ConnectProceeds ==
  \E k \in Conn : cpc[k] # "resume_in" /\ cpc'[k] = "resume_in"
C30_DisconnectedIsStable ==
  [][ (state = "DISCONNECTED" /\ state' # "DISCONNECTED") =>
        ConnectProceeds ]_vars
\* the part of C30 that holds: a vision tick and a quiet capture tick leave
\* Mode disconnected
C30_QuietStepsKeepMode ==
  [][ (state = "DISCONNECTED"
         /\ (hist'.op = "frame"
               \/ (hist'.op = "tick" /\ inputVolume' <= Threshold))) =>
        state' = "DISCONNECTED" ]_vars

\* C31: when disconnect was called while a connect was under way, then once
\* that connect has returned and its session is no longer waiting for the
\* acknowledgment, Mode is disconnected, and the call has left no session
\* open, no microphone track live and no audio context open; Mode is never
\* idle without an attached capture pipeline.
Settled(k) == cpc[k] = "returned" /\ session[k] # "opening"
NothingLeft(k) ==
  /\ ~SessionLive(k)
  /\ mic[k] # "live"
  /\ inCtx[k] # "open"
  /\ outCtx[k] # "open"
C31_AbortedConnectCleansUp ==
  \A a \in hist.aborted :
    Settled(a[1]) =>
      /\ state = "DISCONNECTED"
      /\ NothingLeft(a[1])
\* the part of C31 that holds: a connect that the disconnect found at one of
\* the two context resumes ends in its catch block, with nothing left
C31_AbortAtResumeCleansUp ==
  \A a \in hist.aborted :
    (Settled(a[1]) /\ a[2] \in {"resume_in", "resume_out"}
       /\ \A b \in hist.aborted : b[1] = a[1] => b[2] = a[2]) =>
      /\ state = "DISCONNECTED"
      /\ NothingLeft(a[1])

\* C32: the cursor is ahead of the clock of the current output context by no
\* more than the audio scheduled on that context, and the first chunk
\* scheduled on the output context of a new session starts at the clock time
\* of its arrival, not at a cursor left by the session before.
RECURSIVE ScheduledOn(_, _)
ScheduledOn(sched, ctx) ==
  IF sched = <<>> THEN 0
  ELSE (IF Head(sched).ctx = ctx THEN Head(sched).dur ELSE 0)
       + ScheduledOn(Tail(sched), ctx)
FirstChunkAtArrival ==
  LET sched == hist.sched
  IN \A i \in 1..Len(sched) :
       (i = 1 \/ sched[i - 1].ctx # sched[i].ctx) =>
         sched[i].start = sched[i].at
C32_CursorOfThisSession ==
  /\ FirstChunkAtArrival
  /\ outputContextRef # 0 =>
       nextStartTimeRef <= CurrentTime(outputContextRef)
                           + ScheduledOn(hist.sched, outputContextRef)
\* the part of C32 that holds: within one output context the cursor is ahead
\* of the clock by no more than what was scheduled on it before any other
\* context came
C32_CursorOfFirstSession ==
  LET sched == hist.sched
  IN (outputContextRef # 0 /\ \A i \in 1..Len(sched) :
                                 sched[i].ctx = outputContextRef) =>
       \/ sched = <<>>
       \/ nextStartTimeRef <= CurrentTime(outputContextRef)
                               + ScheduledOn(sched, outputContextRef)

\* C33: a restart of the camera that was scheduled by a resolution switch and
\* was within its settle delay when disconnect (or a camera-off toggle)
\* happened acquires no camera track and starts no frame interval, so none
\* of its frames is sent.
C33_StaleRestartStaysStopped ==
  \A j \in hist.stale :
    /\ camTrack[j] # "live"
    /\ videoIntervalRef # j
    /\ ~(hist.op = "frame" /\ hist.who = j)
\* the part of C33 that holds: the switch itself stops the capture, so that
\* no frame interval runs and the camera is off during the settle delay
C33_SwitchStopsCapture ==
  (hist.op = "resolution" /\ hist.who # 0) =>
     /\ ~isCameraActive
     /\ videoIntervalRef = 0
     /\ vpc[hist.who] = "delay"

=============================================================================
